---- MODULE Spec2Model ----
(***************************************************************************)
(* whisperer.py: push-to-talk dictation.  The hotkey listener thread runs  *)
(* on_press / on_release, every press that finds `recording` false starts  *)
(* a record_audio thread, and one worker thread (process_audio_openai)     *)
(* consumes audio_queue.  The module-level globals recording, stream,      *)
(* frames, modifier_pressed, modifier_last_pressed and audio_queue are     *)
(* shared by all of them without a lock, so every thread advances one      *)
(* statement group at a time and the groups interleave freely.             *)
(***************************************************************************)
EXTENDS Integers, Sequences, FiniteSets, TLC

\* ------------------------------------------------------------- bounds
MaxThreads == 2          \* record_audio threads started in one run
MaxFrames == 2           \* chunks read from the device that are followed
MaxTime == 750           \* last clock value (milliseconds)
MaxLen == 5              \* characters of a raw transcription

\* ---------------------------------------------------- program constants
CHUNK == 512             \* samples per stream.read
RATE == 16000            \* samples per second
MinDuration == 5         \* seconds below which a clip is padded
MaxTries == 3            \* record_audio gives up when tries > 3
DebounceWindow == 250    \* 0.25 s, in milliseconds

\* The clock advances in steps of one debounce window: two key events at the
\* same clock value are less than the window apart, events at different
\* values at least the window apart.
Quantum == DebounceWindow

Threads == 1..MaxThreads

VARIABLES
    recording,              \* global recording
    stream,                 \* global stream: 0 is None, else a stream id
    frames,                 \* global frames: sequence of chunks
    modifier_pressed,       \* global modifier_pressed
    modifier_last_pressed,  \* global modifier_last_pressed (ms)
    audio_queue,            \* queue.Queue of (fname, duration)
    now,                    \* time.time() (ms)
    keyDown,                \* the physical trigger key
    streams,                \* PortAudio state of every stream opened so far
    pc,                     \* position of every record_audio thread
    tries,                  \* record_audio's argument, per thread
    fname,                  \* process_and_clear_frames' local, per thread
    files,                  \* wave files written, indexed by file name
    wpc,                    \* position of the worker thread
    cur,                    \* the worker's (fname, orig_duration), <<>> if none
    clipboard,              \* pyperclip's clipboard: a file name, 0 if empty
    mini,                   \* args.mini
    raw,                    \* the transcription the backend returned
    text,                   \* what process_transcription made of it
    passes,                 \* process_transcription calls applied to raw
    \* history variables (read by no statement of the program)
    captured,               \* chunks read from the device and appended so far
    enqueued,               \* file names in the order they were put
    pasted,                 \* file names in the order the worker pasted them
    failed,                 \* file names whose backend call raised
    sent,                   \* requests built: file name and model, in order
    spaced,                 \* all key events so far were >= a window apart
    \* the next four are followed only while spaced holds
    last_event,             \* clock value of the latest key event, -1 if none
    pairCaptured,           \* a chunk was appended since the current press
    pairs,                  \* completed press->release pairs with a chunk
    straddled,              \* completed pairs with only a read under way
    pending                 \* what the latest press asked for, see on_press

vars == <<recording, stream, frames, modifier_pressed, modifier_last_pressed,
          audio_queue, now, keyDown, streams, pc, tries, fname, files, wpc,
          cur, clipboard, mini, raw, text, passes,
          captured, enqueued, pasted, failed, sent,
          spaced, last_event, pairCaptured, pairs, straddled, pending>>

history == <<captured, enqueued, pasted, failed, sent, spaced, last_event,
             pairCaptured, pairs, straddled, pending>>
keyHistory == <<spaced, last_event, pairs, straddled, pending>>
workerHistory == <<pasted, failed, sent>>
textVars == <<raw, text, passes>>
workerVars == <<wpc, cur, clipboard, mini, textVars>>
keyVars == <<modifier_pressed, modifier_last_pressed, now, keyDown>>

\* ------------------------------------------------------------- helpers
\* An element of frames: one chunk read from the device, or one buffer of
\* n chunks of silence.
Audio == [kind |-> "audio", chunks |-> 1]
Silence(n) == [kind |-> "silence", chunks |-> n]

\* number of device chunks in a frame list
RECURSIVE CapturedIn(_)
CapturedIn(fs) ==
    IF fs = <<>> THEN 0
    ELSE (IF Head(fs).kind = "audio" THEN 1 ELSE 0) + CapturedIn(Tail(fs))

\* total samples of a frame list: b"".join(frames)
RECURSIVE Samples(_)
Samples(fs) ==
    IF fs = <<>> THEN 0 ELSE Head(fs).chunks * CHUNK + Samples(Tail(fs))

\* duration = (len(frames) * CHUNK) / RATE, kept as samples (duration * RATE)
DurationSamples(fs) == Len(fs) * CHUNK

\* pad_frames = int((5 - duration) * RATE / CHUNK / 2)
PadFrames(fs) == (MinDuration * RATE - DurationSamples(fs)) \div (2 * CHUNK)

\* lines 226-233: pad a clip shorter than 5 s with one silence buffer per side
Padded(fs) ==
    IF DurationSamples(fs) < MinDuration * RATE
    THEN <<Silence(PadFrames(fs))>> \o fs \o <<Silence(PadFrames(fs))>>
    ELSE fs

\* the state of the stream the global `stream` is bound to
StreamIs(st) == stream # 0 /\ streams[stream] = st

Finished == {"idle", "done", "dead"}
Quiescent == \A t \in Threads : pc[t] \in Finished

\* ---------------------------------------------------------------- Init
\* the module-level globals and the threads after start-up
Globals ==
    /\ recording = FALSE
    /\ stream = 0
    /\ frames = <<>>
    /\ modifier_pressed = FALSE
    /\ modifier_last_pressed = 0
    /\ audio_queue = <<>>
    /\ now = 0
    /\ keyDown = FALSE
    /\ streams = <<>>
    /\ pc = [t \in Threads |-> "idle"]
    /\ tries = [t \in Threads |-> 0]
    /\ fname = [t \in Threads |-> 0]
    /\ files = <<>>
    /\ wpc = "get"
    /\ cur = <<>>
    /\ clipboard = 0
    /\ mini \in BOOLEAN
    /\ text = <<>>
    /\ passes = 0
    /\ captured = 0
    /\ enqueued = <<>>
    /\ pasted = <<>>
    /\ failed = {}
    /\ sent = <<>>
    /\ spaced = TRUE
    /\ last_event = -1
    /\ pairCaptured = FALSE
    /\ pairs = 0
    /\ straddled = 0
    /\ pending = "none"

Init == Globals /\ raw = <<>>

\* ----------------------------------------------------------- the clock
\* Time is followed while it can still change a comparison: once the latest
\* press and the latest key event are both a full window old, more time
\* passing changes nothing the program or a history variable reads.
Tick ==
    /\ now + Quantum <= MaxTime
    /\ \/ now - modifier_last_pressed < DebounceWindow
       \/ spaced /\ now - last_event < DebounceWindow
    /\ now' = now + Quantum
    /\ UNCHANGED <<recording, stream, frames, modifier_pressed,
                   modifier_last_pressed, audio_queue, keyDown, streams, pc,
                   tries, fname, files, workerVars, history>>

\* ------------------------------------------------------ hotkey listener
\* this key event keeps all events a window apart
Spaced == spaced /\ (last_event < 0 \/ now - last_event >= DebounceWindow)

\* lines 317 and 330: `modifier_pressed = v` in on_press / on_release.  Both
\* functions declare only modifier_last_pressed and recording global, so the
\* assignment binds a local and the module-level modifier_pressed keeps its
\* value.
AssignModifierPressedGlobal(v) == v
AssignModifierPressed(v) == modifier_pressed

\* on_press(MODIFIER), lines 314-324.
\* pending records what the latest press asked for: "stop" when it found
\* recording true ("tapStop" when that press follows a tap), "idlePress" when
\* it started a capture with no capture thread alive, "none" otherwise; the
\* release of an idlePress turns it into "released" (held for the debounce
\* window) or "tapped" (released sooner).
on_press ==
    /\ ~keyDown
    /\ keyDown' = TRUE
    /\ modifier_pressed' = AssignModifierPressed(TRUE)
    /\ modifier_last_pressed' = now
    /\ IF recording
       THEN /\ recording' = FALSE
            /\ UNCHANGED pc
       ELSE /\ \E t \in Threads :
                 /\ pc[t] = "idle"
                 /\ \A u \in Threads : u < t => pc[u] # "idle"
                 /\ pc' = [pc EXCEPT ![t] = "start"]
            /\ UNCHANGED recording
    /\ spaced' = Spaced
    /\ last_event' = IF Spaced THEN now ELSE -1
    /\ pairs' = IF Spaced THEN pairs ELSE 0
    /\ straddled' = IF Spaced THEN straddled ELSE 0
    /\ pairCaptured' = FALSE
    /\ pending' = IF recording
                  THEN (IF pending = "tapped" THEN "tapStop" ELSE "stop")
                  ELSE IF Quiescent THEN "idlePress" ELSE "none"
    /\ UNCHANGED <<stream, frames, audio_queue, now, streams,
                   tries, fname, files, workerVars, captured, enqueued,
                   workerHistory>>

\* line 331: time.time() - modifier_last_pressed < 0.25
IsTapInverted == now - modifier_last_pressed > DebounceWindow
IsTap == now - modifier_last_pressed < DebounceWindow

\* on_release(MODIFIER), lines 327-334.  A completed press->release pair
\* counts in pairs when a chunk was appended while the key was down; it
\* counts in straddled when none was but a read was under way as the key went
\* up (whether that chunk was captured during the pair is a matter of
\* reading).
on_release ==
    /\ keyDown
    /\ keyDown' = FALSE
    /\ modifier_pressed' = AssignModifierPressed(FALSE)
    /\ IF IsTap
       THEN UNCHANGED recording
       ELSE recording' = FALSE
    /\ spaced' = Spaced
    /\ last_event' = IF Spaced THEN now ELSE -1
    /\ pairs' = IF ~Spaced THEN 0
                ELSE IF pairCaptured THEN pairs + 1 ELSE pairs
    /\ straddled' = IF ~Spaced THEN 0
                    ELSE IF ~pairCaptured /\ \E t \in Threads : pc[t] = "read"
                    THEN straddled + 1 ELSE straddled
    /\ pairCaptured' = FALSE
    /\ pending' = IF pending = "idlePress"
                  THEN (IF now - modifier_last_pressed >= DebounceWindow
                        THEN "released" ELSE "tapped")
                  ELSE pending
    /\ UNCHANGED <<stream, frames, modifier_last_pressed,
                   audio_queue, now, streams, pc, tries, fname, files,
                   workerVars, captured, enqueued, workerHistory>>

\* ------------------------------------------------- record_audio threads
\* Stream states: "open" (active), "stopped", "closed".  An exception that
\* leaves record_audio ends the thread ("dead").

Goto(t, l) == pc' = [pc EXCEPT ![t] = l]

captureFrame == <<stream, streams, recording, frames, tries, fname, files,
                  audio_queue>>

\* lines 191-196: the tries check and `if not recording`
Start(t) ==
    /\ pc[t] = "start"
    /\ Goto(t, IF tries[t] > MaxTries THEN "done"
               ELSE IF ~recording THEN "open" ELSE "loop")
    /\ UNCHANGED <<captureFrame, keyVars, workerVars, history>>

\* lines 198-204: audio.open succeeds and is bound to the global stream.
\* tries is not read again once the stream is open; it is kept until then.
OpenOk(t) ==
    /\ pc[t] = "open"
    /\ streams' = Append(streams, "open")
    /\ stream' = Len(streams) + 1
    /\ tries' = [tries EXCEPT ![t] = 0]
    /\ Goto(t, "setrec")
    /\ UNCHANGED <<recording, frames, fname, files, audio_queue,
                   keyVars, workerVars, history>>

\* lines 210-212: audio.open raises; record_audio(tries + 1)
OpenFail(t) ==
    /\ pc[t] = "open"
    /\ tries' = [tries EXCEPT ![t] = tries[t] + 1]
    /\ Goto(t, "start")
    /\ UNCHANGED <<stream, streams, recording, frames, fname, files,
                   audio_queue, keyVars, workerVars, history>>

\* line 205
SetRecording(t) ==
    /\ pc[t] = "setrec"
    /\ recording' = TRUE
    /\ Goto(t, "reset")
    /\ UNCHANGED <<stream, streams, frames, tries, fname, files, audio_queue,
                   keyVars, workerVars, history>>

\* line 206
ResetFrames(t) ==
    /\ pc[t] = "reset"
    /\ frames' = <<>>
    /\ Goto(t, "loop")
    /\ UNCHANGED <<stream, streams, recording, tries, fname, files,
                   audio_queue, keyVars, workerVars, history>>

\* line 214: while recording
Loop(t) ==
    /\ pc[t] = "loop"
    /\ Goto(t, IF recording THEN "read" ELSE "stop")
    /\ UNCHANGED <<captureFrame, keyVars, workerVars, history>>

\* lines 215-216: stream.read(CHUNK) returns a chunk, which is appended, or
\* raises because another thread has stopped or closed the stream.  The first
\* MaxFrames chunks read in a run are followed; a later read returns to the
\* loop test and is not recorded anywhere (neither in frames nor in the
\* history).
Read(t) ==
    /\ pc[t] = "read"
    /\ IF StreamIs("open")
       THEN /\ Goto(t, "loop")
            /\ IF captured < MaxFrames
               THEN /\ frames' = Append(frames, Audio)
                    /\ captured' = captured + 1
                    /\ pairCaptured' = (spaced /\ (pairCaptured \/ keyDown))
               ELSE UNCHANGED <<frames, captured, pairCaptured>>
       ELSE /\ Goto(t, "dead")
            /\ UNCHANGED <<frames, captured, pairCaptured>>
    /\ UNCHANGED <<stream, streams, recording, tries, fname, files,
                   audio_queue, keyVars, workerVars, enqueued, workerHistory,
                   keyHistory>>

\* line 250: stream.stop_stream() stops the stream (a no-op on a stopped
\* one), or raises because another thread has closed it
StopStream(t) ==
    /\ pc[t] = "stop"
    /\ IF StreamIs("closed")
       THEN /\ Goto(t, "dead")
            /\ UNCHANGED streams
       ELSE /\ Goto(t, "close")
            /\ streams' = [streams EXCEPT ![stream] = "stopped"]
    /\ UNCHANGED <<stream, recording, frames, tries, fname, files, audio_queue,
                   keyVars, workerVars, history>>

\* line 251: stream.close().  On a stream another thread has closed already
\* the second close returns or raises, as the audio library decides; both
\* outcomes are kept.
CloseStream(t) ==
    /\ pc[t] = "close"
    /\ IF StreamIs("closed")
       THEN /\ \E raised \in BOOLEAN :
                 Goto(t, IF raised THEN "dead" ELSE "lencheck")
            /\ UNCHANGED streams
       ELSE /\ Goto(t, "lencheck")
            /\ streams' = [streams EXCEPT ![stream] = "closed"]
    /\ UNCHANGED <<stream, recording, frames, tries, fname, files, audio_queue,
                   keyVars, workerVars, history>>

\* line 252: if len(frames) > 0
LenCheck(t) ==
    /\ pc[t] = "lencheck"
    /\ Goto(t, IF Len(frames) > 0 THEN "pad" ELSE "done")
    /\ UNCHANGED <<captureFrame, keyVars, workerVars, history>>

\* lines 223-233: duration, and the silence inserted at both ends
Pad(t) ==
    /\ pc[t] = "pad"
    /\ frames' = Padded(frames)
    /\ Goto(t, "write")
    /\ UNCHANGED <<stream, streams, recording, tries, fname, files,
                   audio_queue, keyVars, workerVars, history>>

\* lines 235-240: the wave file holds b"".join(frames)
WriteFile(t) ==
    /\ pc[t] = "write"
    /\ files' = Append(files, frames)
    /\ fname' = [fname EXCEPT ![t] = Len(files) + 1]
    /\ Goto(t, "put")
    /\ UNCHANGED <<stream, streams, recording, frames, tries, audio_queue,
                   keyVars, workerVars, history>>

\* lines 243-244: duration after padding, audio_queue.put((fname, duration))
Put(t) ==
    /\ pc[t] = "put"
    /\ audio_queue' = Append(audio_queue,
                             [fname |-> fname[t],
                              duration |-> DurationSamples(frames)])
    /\ enqueued' = Append(enqueued, fname[t])
    /\ Goto(t, "clear")
    /\ UNCHANGED <<stream, streams, recording, frames, tries, fname, files,
                   keyVars, workerVars, captured, workerHistory, pairCaptured,
                   keyHistory>>

\* line 245: frames = []
ClearFrames(t) ==
    /\ pc[t] = "clear"
    /\ frames' = <<>>
    /\ Goto(t, "done")
    /\ UNCHANGED <<stream, streams, recording, tries, fname, files,
                   audio_queue, keyVars, workerVars, history>>

Capture(t) ==
    \/ Start(t) \/ OpenOk(t) \/ OpenFail(t) \/ SetRecording(t)
    \/ ResetFrames(t) \/ Loop(t) \/ Read(t) \/ StopStream(t)
    \/ CloseStream(t) \/ LenCheck(t)
    \/ Pad(t) \/ WriteFile(t) \/ Put(t) \/ ClearFrames(t)

\* --------------------------------------------- process_audio_openai worker
captureVars == <<recording, stream, frames, streams, pc, tries, fname, files>>
captureHistory == <<captured, enqueued, pairCaptured, keyHistory>>

\* queue.Queue.get(): the oldest item, and the queue without it
DequeueLifo(q) == [item |-> q[Len(q)], rest |-> SubSeq(q, 1, Len(q) - 1)]
Dequeue(q) == [item |-> Head(q), rest |-> Tail(q)]

\* line 270: audio_queue.get() blocks until an item is there
WorkerGet ==
    /\ wpc = "get"
    /\ audio_queue # <<>>
    /\ cur' = <<Dequeue(audio_queue).item>>
    /\ audio_queue' = Dequeue(audio_queue).rest
    /\ wpc' = "transcribe"
    /\ UNCHANGED <<captureVars, keyVars, clipboard, mini, textVars, history>>

\* build_request_body, lines 76-79: the model named in the request for an
\* item of the queue
ModelByBacklog(item) ==
    IF audio_queue # <<>> THEN "gpt-4o-mini-audio-preview-2024-12-17"
    ELSE "gpt-4o-audio-preview-2024-12-17"
Model(item) ==
    IF mini THEN "gpt-4o-mini-audio-preview-2024-12-17"
    ELSE "gpt-4o-audio-preview-2024-12-17"

Request(item) == [fname |-> item.fname, model |-> Model(item)]

\* lines 276-292: the file is read, the request is built and posted, and the
\* backend answers
TranscribeOk ==
    /\ wpc = "transcribe"
    /\ wpc' = "copy"
    /\ sent' = Append(sent, Request(cur[1]))
    /\ UNCHANGED <<captureVars, keyVars, audio_queue, cur, clipboard, mini,
                   textVars, captured, enqueued, pasted, failed, pairCaptured,
                   keyHistory>>

\* lines 306-307: the handler prints and the while True loop goes on
AfterExceptionUncaught == "dead"
AfterException == "get"

\* lines 276-279 raise: before the request is built (file read, missing
\* key) or after it was posted (HTTP status, response shape)
TranscribeFail ==
    /\ wpc = "transcribe"
    /\ wpc' = AfterException
    /\ failed' = failed \cup {cur[1].fname}
    /\ \E posted \in BOOLEAN :
          sent' = IF posted THEN Append(sent, Request(cur[1])) ELSE sent
    /\ cur' = <<>>
    /\ UNCHANGED <<captureVars, keyVars, audio_queue, clipboard, mini,
                   textVars, captured, enqueued, pasted, pairCaptured,
                   keyHistory>>

\* lines 294-296: normalise, pyperclip.copy
Copy ==
    /\ wpc = "copy"
    /\ clipboard' = cur[1].fname
    /\ wpc' = "wait"
    /\ UNCHANGED <<captureVars, keyVars, audio_queue, cur, mini, textVars,
                   captured, enqueued, pasted, failed, sent, pairCaptured,
                   keyHistory>>

\* lines 298-300: while modifier_pressed: sleep(0.02); then sleep(0.01)
Wait ==
    /\ wpc = "wait"
    /\ wpc' = IF modifier_pressed THEN "wait" ELSE "paste"
    /\ UNCHANGED <<captureVars, keyVars, audio_queue, cur, clipboard, mini,
                   textVars, history>>

\* lines 302-304: command-v pastes the clipboard
Paste ==
    /\ wpc = "paste"
    /\ pasted' = Append(pasted, clipboard)
    /\ cur' = <<>>
    /\ wpc' = "get"
    /\ UNCHANGED <<captureVars, keyVars, audio_queue, clipboard, mini,
                   textVars, captured, enqueued, failed, sent, pairCaptured,
                   keyHistory>>

Worker == WorkerGet \/ TranscribeOk \/ TranscribeFail \/ Copy \/ Wait \/ Paste

\* -------------------------------------------------- process_transcription
\* A string is a sequence of characters.  Raw transcriptions are drawn from
\* a letter, the space, the line break and the square brackets.
NL == "\n"
Alphabet == {"a", " ", NL, "[", "]"}
Whitespace == {" ", NL}
RawTexts == UNION {[1..k -> Alphabet] : k \in 0..MaxLen}

\* re: where the match of \[.*?\] that starts at s[1] ends, 0 if there is
\* none.  `.` matches no line break, and the lazy `*?` stops at the first "]".
CloseAt(s) ==
    LET ends == {j \in 2..Len(s) :
                    /\ s[j] = "]"
                    /\ \A k \in 2..(j - 1) : s[k] \notin {"]", NL}}
    IN IF s = <<>> \/ s[1] # "[" \/ ends = {} THEN 0
       ELSE CHOOSE j \in ends : TRUE

\* line 258: re.sub(r"\[.*?\]", "", s)
RECURSIVE RemoveBracketed(_)
RemoveBracketed(s) ==
    IF s = <<>> THEN <<>>
    ELSE IF CloseAt(s) > 0
         THEN RemoveBracketed(SubSeq(s, CloseAt(s) + 1, Len(s)))
         ELSE <<Head(s)>> \o RemoveBracketed(Tail(s))

RECURSIVE LStrip(_)
LStrip(s) ==
    IF s # <<>> /\ Head(s) \in Whitespace THEN LStrip(Tail(s)) ELSE s

RECURSIVE RStrip(_)
RStrip(s) ==
    IF s # <<>> /\ s[Len(s)] \in Whitespace
    THEN RStrip(SubSeq(s, 1, Len(s) - 1)) ELSE s

\* line 259: s.strip()
StripNone(s) == s
Strip(s) == RStrip(LStrip(s))

\* line 259: .replace("\n", " ")
NewlinesToSpaces(s) == [i \in 1..Len(s) |-> IF s[i] = NL THEN " " ELSE s[i]]

\* line 259: .replace("  ", " "), one pass over non-overlapping occurrences
RECURSIVE ReplaceDoubleSpace(_)
ReplaceDoubleSpace(s) ==
    IF Len(s) < 2 THEN s
    ELSE IF s[1] = " " /\ s[2] = " "
         THEN <<" ">> \o ReplaceDoubleSpace(SubSeq(s, 3, Len(s)))
         ELSE <<s[1]>> \o ReplaceDoubleSpace(Tail(s))

\* str.upper() of one character
Upper(c) == IF c = "a" THEN "A" ELSE c

\* lines 256-264
process_transcription(s) ==
    LET t == ReplaceDoubleSpace(NewlinesToSpaces(Strip(RemoveBracketed(s))))
    IN IF Len(t) = 0 THEN <<" ">>
       ELSE <<Upper(t[1])>> \o Tail(t) \o <<" ">>

textFrame == <<captureVars, keyVars, audio_queue, wpc, cur, clipboard, mini,
               raw, history>>

\* line 294: transcription = process_transcription(transcription)
Normalise ==
    /\ passes = 0
    /\ text' = process_transcription(raw)
    /\ passes' = 1
    /\ UNCHANGED textFrame

\* process_transcription applied to its own result
Renormalise ==
    /\ passes = 1
    /\ text' = process_transcription(text)
    /\ passes' = 2
    /\ UNCHANGED textFrame

\* ------------------------------------------------------- specifications
Next ==
    \/ Tick
    \/ on_press
    \/ on_release
    \/ \E t \in Threads : Capture(t)
    \/ Worker

Spec == Init /\ [][Next]_vars

\* Threads that can run are scheduled: every record_audio thread and the
\* worker keep taking steps.  Key events and the clock are the user's.
Fairness ==
    /\ \A t \in Threads : WF_vars(Capture(t))
    /\ WF_vars(Worker)

LiveSpec == Spec /\ Fairness

\* A user who starts a new capture only when no capture thread is alive.
SerialNext ==
    \/ Tick
    \/ (recording \/ Quiescent) /\ on_press
    \/ on_release
    \/ \E t \in Threads : Capture(t)
    \/ Worker

SerialSpec == Init /\ [][SerialNext]_vars
SerialLiveSpec == SerialSpec /\ Fairness

\* process_transcription on every raw transcription of at most MaxLen
\* characters.
TextInit == Globals /\ raw \in RawTexts
TextNext == Normalise \/ Renormalise
TextSpec == TextInit /\ [][TextNext]_vars

\* --------------------------------------------------------------- claims
\* A thread holds a capture session from the statement after audio.open (or
\* from its first loop test, when it found recording already true) until it
\* leaves stop_recording.
InSession(t) ==
    pc[t] \in {"setrec", "reset", "loop", "read", "stop", "close",
               "lencheck", "pad", "write", "put", "clear"}
Reading(t) == pc[t] \in {"loop", "read"}

\* C1: at most one capture session is active in every reachable state: never
\* two record_audio threads that have started capturing and not yet finished
\* their stop/flush.
C1_AtMostOneSession == Cardinality({t \in Threads : InSession(t)}) <= 1

\* C2: the worker's paste step is taken only in a state where the latest
\* trigger event delivered is a release, or none was delivered (the key is
\* up).
C2_PasteOnlyWhenReleased ==
    [][(wpc = "paste" /\ wpc' = "get") => ~keyDown]_vars

\* C8: no thread starts a capture session (binds a fresh stream, resets
\* frames) while another thread's session has not drained.
C8_StartOnlyWhenDrained ==
    [][\A t \in Threads :
         (\/ pc[t] = "open" /\ pc'[t] = "setrec"
          \/ pc[t] = "reset" /\ pc'[t] = "loop")
         => \A u \in Threads \ {t} : ~InSession(u)]_vars

RECURSIVE CapturedInFiles(_)
CapturedInFiles(names) ==
    IF names = <<>> THEN 0
    ELSE CapturedIn(files[Head(names)]) + CapturedInFiles(Tail(names))

\* C9: once every capture thread has finished, every chunk read from the
\* device is in an enqueued utterance: none was discarded before its flush.
C9_NoFrameLost == Quiescent => CapturedInFiles(enqueued) >= captured

Idle == ~recording /\ \A t \in Threads : ~InSession(t)

\* C3: with key events at least a debounce window apart, whenever the key is
\* up and every capture thread has finished, the utterances put on
\* audio_queue are as many as the completed press->release pairs during
\* which a chunk was captured: at least the pairs with a chunk appended while
\* the key was down, at most those plus the pairs that ended during a read.
C3_EnqueuedEqualsPairs ==
    (spaced /\ Quiescent /\ ~keyDown) =>
        /\ pairs <= Len(enqueued)
        /\ Len(enqueued) <= pairs + straddled

C5_HoldReleaseStops ==
    (pending = "released") ~> (pending # "released" \/ (~recording /\ Quiescent))

Range(q) == {q[i] : i \in 1..Len(q)}
PosIn(q, x) == CHOOSE i \in 1..Len(q) : q[i] = x

\* C6: utterances are pasted in the order they were put on audio_queue, each
\* at most once, the paste step pastes the utterance being processed, and
\* that utterance is later in the queue order than everything pasted before.
C6_DeliveredInOrder ==
    /\ Range(pasted) \subseteq Range(enqueued)
    /\ \A i, j \in 1..Len(pasted) :
         i < j => PosIn(enqueued, pasted[i]) < PosIn(enqueued, pasted[j])
    /\ wpc = "paste" => clipboard = cur[1].fname
    /\ cur # <<>> =>
         \A i \in 1..Len(pasted) :
            PosIn(enqueued, pasted[i]) < PosIn(enqueued, cur[1].fname)

\* two utterances were queued together and both were pasted
C6_Witness == Len(pasted) >= 2

\* C7: a backend failure on an utterance leaves the worker running: the
\* failing step returns it to audio_queue.get() with nothing pasted and the
\* queue untouched, a failed utterance is never pasted, and every utterance
\* put on the queue is eventually pasted or dropped as failed.
C7_FailureKeepsWorker ==
    /\ [](wpc \in {"get", "transcribe", "copy", "wait", "paste"})
    /\ [](failed \cap Range(pasted) = {})
    /\ [][failed' # failed =>
            /\ wpc' = "get"
            /\ pasted' = pasted
            /\ audio_queue' = audio_queue]_vars
    /\ \A f \in 1..MaxThreads :
         (f \in Range(enqueued)) ~> (f \in failed \cup Range(pasted))

\* an utterance failed and a later one was pasted
C7_Witness ==
    \E f \in failed : \E g \in Range(pasted) :
       PosIn(enqueued, f) < PosIn(enqueued, g)

\* C10: a press that finds recording true starts no capture thread, and
\* leads, with no further press, to Idle: recording false and no thread in
\* a capture session.
C10_PressWhileRecordingStops ==
    /\ [][(recording /\ ~keyDown /\ keyDown') => pc' = pc]_vars
    /\ (pending \in {"stop", "tapStop"})
         ~> (pending \notin {"stop", "tapStop"} \/ Idle)

\* the open attempts the message on line 192 speaks of
MaxOpenAttempts == 3

\* C11: when every attempt to open the device fails, record_audio gives up
\* after at most 3 open attempts (tries counts the attempts of the thread that
\* have failed), and giving up leaves recording, frames and audio_queue as
\* they were, with nothing captured.
C11_GivesUpAfterThreeOpens ==
    [][\A t \in Threads :
         (pc[t] = "start" /\ pc'[t] = "done") =>
            /\ tries[t] <= MaxOpenAttempts
            /\ UNCHANGED <<recording, frames, audio_queue, captured>>]_vars

\* silence at the beginning and at the end of a written clip, in chunks
LeadSilence(f) == IF f # <<>> /\ f[1].kind = "silence" THEN f[1].chunks ELSE 0
TrailSilence(f) ==
    IF f # <<>> /\ f[Len(f)].kind = "silence" THEN f[Len(f)].chunks ELSE 0

\* C12: every written clip whose captured duration is below the minimum has
\* total length exactly the minimum duration (MinDuration * RATE samples),
\* and its silence is split between both ends within one chunk.
C12_PaddedToMinimum ==
    \A i \in 1..Len(files) :
       CapturedIn(files[i]) * CHUNK < MinDuration * RATE =>
          /\ Samples(files[i]) = MinDuration * RATE
          /\ LeadSilence(files[i]) - TrailSilence(files[i]) \in {-1, 0, 1}

\* C16: within one run, two requests for utterances of the same pre-padding
\* duration name the same model, and the model named is the one args.mini
\* selects, whatever padding the clip received.
C16_ModelDeterministic ==
    /\ \A i, j \in 1..Len(sent) :
          CapturedIn(files[sent[i].fname]) = CapturedIn(files[sent[j].fname])
             => sent[i].model = sent[j].model
    /\ \A i \in 1..Len(sent) :
          sent[i].model = IF mini THEN "gpt-4o-mini-audio-preview-2024-12-17"
                          ELSE "gpt-4o-audio-preview-2024-12-17"

\* requests were built for two utterances of the same pre-padding duration
C16_Witness ==
    \E i, j \in 1..Len(sent) :
       /\ sent[i].fname # sent[j].fname
       /\ CapturedIn(files[sent[i].fname]) = CapturedIn(files[sent[j].fname])
       /\ CapturedIn(files[sent[i].fname]) > 0

\* C17: every item on audio_queue names a clip that holds at least one chunk
\* read from the device, never silence only.
C17_NoSilenceOnlyUtterance ==
    \A i \in 1..Len(audio_queue) :
       CapturedIn(files[audio_queue[i].fname]) >= 1

\* C18: the duration put on audio_queue with a clip is the length of the
\* clip as written, captured chunks plus silence (both in samples, that is
\* multiplied by RATE).
C18_DurationIsClipLength ==
    \A i \in 1..Len(audio_queue) :
       audio_queue[i].duration = Samples(files[audio_queue[i].fname])

\* C19: the module-level modifier_pressed is false in every reachable state,
\* no key event changes it, and so the worker's wait loop never finds it true.
C19_ModifierPressedNeverSet ==
    /\ [](modifier_pressed = FALSE)
    /\ [][keyDown' # keyDown => modifier_pressed' = modifier_pressed]_vars
    /\ [][wpc = "wait" /\ wpc' # wpc => wpc' = "paste"]_vars

\* the key is down while the worker polls modifier_pressed
C19_Witness == wpc = "wait" /\ keyDown /\ modifier_last_pressed = now

\* C20: stop_recording never closes a stream that is closed already, and once
\* every capture thread has finished every stream that was opened is closed.
C20_StreamClosedOnce ==
    /\ [][\A t \in Threads :
            (pc[t] = "close" /\ pc'[t] # "close") => ~StreamIs("closed")]_vars
    /\ [](Quiescent => \A i \in 1..Len(streams) : streams[i] = "closed")

\* C13: process_transcription is idempotent: applied to its own result it
\* returns that result.
C13_NormaliseIdempotent == passes = 2 => text = process_transcription(raw)

\* every run of whitespace becomes one space
RECURSIVE CollapseRuns(_)
CollapseRuns(s) ==
    IF s = <<>> THEN <<>>
    ELSE IF Head(s) \in Whitespace
         THEN <<" ">> \o CollapseRuns(LStrip(s))
         ELSE <<Head(s)>> \o CollapseRuns(Tail(s))

\* the reference normalisation: bracketed annotations removed, runs of
\* whitespace collapsed, surrounding whitespace trimmed, first letter
\* capitalised, one trailing space
Reference(s) ==
    LET t == RStrip(LStrip(CollapseRuns(RemoveBracketed(s))))
    IN IF t = <<>> THEN <<" ">>
       ELSE <<Upper(t[1])>> \o Tail(t) \o <<" ">>

\* C14: process_transcription(s) is the reference normalisation of s.
C14_MatchesReference == passes = 1 => text = Reference(raw)

\* s consists of whitespace and bracketed annotations only; an annotation is
\* an opening bracket, text without line break, and the next closing bracket
RECURSIVE OnlyAnnotations(_)
OnlyAnnotations(s) ==
    IF s = <<>> THEN TRUE
    ELSE IF Head(s) \in Whitespace THEN OnlyAnnotations(Tail(s))
    ELSE LET close == {j \in 2..Len(s) :
                          /\ s[j] = "]"
                          /\ \A k \in 2..(j - 1) : s[k] \notin {"]", NL}}
         IN /\ Head(s) = "["
            /\ close # {}
            /\ \A j \in close : OnlyAnnotations(SubSeq(s, j + 1, Len(s)))

====
